---- MODULE Spec2Model ----
(***************************************************************************)
(* rpmfile: the cpio member-table decoder (RPMInfo._read_new), the        *)
(* hardlink resolver (RPMFile._resolve_links) and the lazily cached        *)
(* accessor (RPMFile.getmembers / getmember / extractfile / get_binaries / *)
(* data_file) of src/rpmfile/__init__.py.                                  *)
(*                                                                         *)
(* The decompressed payload is a sequence of bytes (integers 0..255); the  *)
(* decoder is modelled on those bytes, read by read, seek by seek.         *)
(***************************************************************************)
EXTENDS Integers, Sequences, FiniteSets, TLC

(***************************************************************************)
(* Bounds of the model.                                                    *)
(***************************************************************************)
\* Most entries an archive table holds before its end.
MaxEntries == 3

(***************************************************************************)
(* Byte-level helpers.                                                     *)
(***************************************************************************)
None == "None"

Min(a, b) == IF a < b THEN a ELSE b

Max(a, b) == IF a > b THEN a ELSE b

\* b'070701', the only magic RPMInfo._read accepts.
MAGIC_NEW == <<48, 55, 48, 55, 48, 49>>

\* b'07', the two-byte prefix getmembers scans for.
MAGIC_PREFIX == <<48, 55>>

\* b'\x7fELF'
ELF_MAGIC == <<127, 69, 76, 70>>

\* 'TRAILER!!!'
TRAILER == <<84, 82, 65, 73, 76, 69, 82, 33, 33, 33>>

\* struct.Struct(b'8s' * 13).size
CoderSize == 104

\* Width of one '8s' field of the coder.
FieldWidth == 8

\* The value of one ASCII hexadecimal digit, -1 for any other byte.
HexDigitVal(b) ==
  IF b >= 48 /\ b <= 57 THEN b - 48
  ELSE IF b >= 97 /\ b <= 102 THEN b - 87
  ELSE IF b >= 65 /\ b <= 70 THEN b - 55
  ELSE -1

RECURSIVE HexAcc(_, _, _)
HexAcc(bs, i, acc) ==
  IF i > Len(bs) THEN acc
  ELSE IF HexDigitVal(bs[i]) < 0 THEN -1
  ELSE HexAcc(bs, i + 1, acc * 16 + HexDigitVal(bs[i]))

\* int(field, 16) on a field of hexadecimal digits: its value, or -1 where
\* int() raises ValueError (an empty field, a byte that is no digit).  The
\* signs, blanks and 0x prefix int() also accepts are not modelled: no input
\* of the model holds them.
ParseHex(bs) == IF Len(bs) = 0 THEN -1 ELSE HexAcc(bs, 1, 0)

\* d[i] of coder.unpack_from(s), i counted from 0 as in the source.
Field(s, i) == SubSeq(s, FieldWidth * i + 1, FieldWidth * i + FieldWidth)

\* bytes.decode('utf-8') on the ASCII names of the model: byte for byte.
\* A byte of 128 or more (a multi-byte sequence) is outside the model.
IsAscii(bs) == \A i \in 1..Len(bs) : bs[i] < 128

(***************************************************************************)
(* The decompressed stream g: read(n), seek(off, 1), tell() of a           *)
(* gzip.GzipFile / lzma.LZMAFile opened for reading.  A read returns the   *)
(* bytes that are left, at most n; a relative seek stops at the end of the *)
(* stream and at its start instead of failing.                             *)
(***************************************************************************)
ReadBytes(data, p, n) == SubSeq(data, p + 1, Min(p + n, Len(data)))

AfterRead(data, p, n) == Min(p + Max(n, 0), Len(data))

SeekCur(data, p, off) == Max(0, Min(p + off, Len(data)))

\* pad without its outer remainder: four bytes of padding at an aligned
\* position.
pad_unreduced(p) == 4 - (p % 4)

\* pad = lambda fileobj: (4 - (fileobj.tell() % 4)) % 4
pad(p) == (4 - (p % 4)) % 4

(***************************************************************************)
(* RPMInfo: the record one table entry decodes to.  link_target is the     *)
(* index of the target in the table the record belongs to, NoLink for      *)
(* Python's None.                                                          *)
(***************************************************************************)
NoLink == 0

RPMInfo(name, file_start, file_size, initial_offset, isdir, ino, is_elf) ==
  [name |-> name, _file_start |-> file_start, _size |-> file_size,
   initial_offset |-> initial_offset, _isdir |-> isdir, _ino |-> ino,
   _is_elf |-> is_elf, link_target |-> NoLink]

\* What a failed call raises, and what a call that raised nothing reports.
NoError == "ok"

\* The result of a step of the decoder that raised.
Raised(e, p) == [err |-> e, pos |-> p, member |-> RPMInfo(<<>>, 0, 0, 0, FALSE, <<>>, FALSE)]

\* seek(pad(fileobj), 1)
seek_pad(data, p) == SeekCur(data, p, pad(p))

\* RPMInfo._read_new, from nlink on: the link count, the inode key, isdir
\* and the constructor.  p is where the stream was left.
new_info(s, name, initial_offset, start, file_size, elf, nlink, p) ==
  IF nlink < 0 THEN Raised("ValueError", p)
  ELSE [err |-> NoError, pos |-> p,
        member |-> RPMInfo(name, start, file_size, initial_offset,
                           nlink = 2 /\ file_size = 0,
                           Field(s, 0) \o Field(s, 1), elf)]

\* RPMInfo._read_new, from file_start = fileobj.tell() on: the four bytes
\* read for the ELF signature, the seek over the rest of the data and the
\* seek over its padding.
read_data(data, s, name, initial_offset, start, file_size) ==
  IF file_size < 0 THEN Raised("ValueError", AfterRead(data, start, 4))
  ELSE new_info(s, name, initial_offset, start, file_size,
                ReadBytes(data, start, 4) = ELF_MAGIC,
                ParseHex(Field(s, 4)),
                seek_pad(data, SeekCur(data, AfterRead(data, start, 4), file_size - 4)))

\* .decode('utf-8') of the name, then the seek over the padding of the name.
decode_name(data, s, initial_offset, name, p) ==
  IF ~IsAscii(name) THEN Raised("UnicodeDecodeError", p)
  ELSE read_data(data, s, name, initial_offset, seek_pad(data, p),
                 ParseHex(Field(s, 6)))

\* name = fileobj.read(namesize)[:-1]
read_name(data, s, initial_offset, p, namesize) ==
  IF namesize < 0 THEN Raised("ValueError", p)
  ELSE decode_name(data, s, initial_offset,
                   SubSeq(ReadBytes(data, p, namesize), 1,
                          Len(ReadBytes(data, p, namesize)) - 1),
                   AfterRead(data, p, namesize))

\* d = coder.unpack_from(s); namesize = int(d[11], 16)
unpack_from(data, initial_offset, s, p) ==
  IF Len(s) < CoderSize THEN Raised("struct.error", p)
  ELSE read_name(data, s, initial_offset, p, ParseHex(Field(s, 11)))

\* RPMInfo._read_new(fileobj): p is the position of the stream when it is
\* called, which is just after the six bytes of the magic.
read_new(data, p) ==
  unpack_from(data, p, ReadBytes(data, p, CoderSize), AfterRead(data, p, CoderSize))

\* RPMInfo._read(magic, fileobj)
read(magic, data, p) ==
  IF magic = MAGIC_NEW THEN read_new(data, p)
  ELSE Raised("Exception: bad magic number", p)

\* The scan loop of getmembers, from g.read(2) on: the records appended to
\* _members in archive order, the position the stream is left at, and the
\* exception that ended the loop, if one did.
RECURSIVE scan(_, _, _)
\* The body of `if magic == b'07'`, r being what RPMInfo._read returned.
scan_member(data, acc, r) ==
  IF r.err # NoError THEN [err |-> r.err, pos |-> r.pos, table |-> acc]
  ELSE IF r.member.name = TRAILER THEN [err |-> NoError, pos |-> r.pos, table |-> acc]
  ELSE scan(data, r.pos, Append(acc, r.member))

scan(data, p, acc) ==
  IF Len(ReadBytes(data, p, 2)) = 0 THEN [err |-> NoError, pos |-> p, table |-> acc]
  ELSE IF ReadBytes(data, p, 2) = MAGIC_PREFIX
  THEN scan_member(data, acc,
                   read(ReadBytes(data, p, 2) \o ReadBytes(data, AfterRead(data, p, 2), 4),
                        data, AfterRead(data, AfterRead(data, p, 2), 4)))
  ELSE scan(data, AfterRead(data, p, 2), acc)

(***************************************************************************)
(* The properties of RPMInfo, read on record i of the table t the record   *)
(* lives in.  `x or y` of the source is y when x is None, 0 or False.      *)
(***************************************************************************)
RECURSIVE file_start(_, _)
file_start(t, i) ==
  LET v == IF t[i].link_target # NoLink THEN file_start(t, t[i].link_target) ELSE 0
  IN IF v # 0 THEN v ELSE t[i]._file_start

RECURSIVE size(_, _)
size(t, i) ==
  LET v == IF t[i].link_target # NoLink THEN size(t, t[i].link_target) ELSE 0
  IN IF v # 0 THEN v ELSE t[i]._size

RECURSIVE is_elf(_, _)
is_elf(t, i) ==
  LET v == IF t[i].link_target # NoLink THEN is_elf(t, t[i].link_target) ELSE FALSE
  IN IF v THEN v ELSE t[i]._is_elf

isdir(t, i) == t[i]._isdir

\* The isdir setter: member.isdir = value
set_isdir(t, i, value) ==
  IF t[i]._isdir /\ t[i].link_target # NoLink
  THEN [t EXCEPT ![i]._isdir = value]
  ELSE t

(***************************************************************************)
(* The hardlink resolver.  A group is the sequence of the indices of the   *)
(* records of one inode, in archive order.                                 *)
(***************************************************************************)
RECURSIVE assign_link_to_members(_, _, _)
assign_link_to_members(t, links_or_dirs, link_target) ==
  IF link_target = NoLink \/ links_or_dirs = <<>> THEN t
  ELSE
    LET member == Head(links_or_dirs)
        t1 == [t EXCEPT ![member].link_target = link_target]
    IN assign_link_to_members(set_isdir(t1, member, FALSE),
                              Tail(links_or_dirs), link_target)

\* The candidate test of _resolve_links_for_same_ino_members.
\* A target test that takes a member without data for a target.
is_target_any_size(t, member) == size(t, member) >= 0 /\ ~isdir(t, member)

is_target(t, member) == size(t, member) > 0 /\ ~isdir(t, member)

\* The loop without its assertion: the last target of the group wins.
RECURSIVE find_target_unchecked(_, _, _, _)
find_target_unchecked(t, ino_members, links_or_dirs, target_member) ==
  IF ino_members = <<>>
  THEN [err |-> NoError, links_or_dirs |-> links_or_dirs, target_member |-> target_member]
  ELSE
    LET member == Head(ino_members) IN
    IF size(t, member) > 0 /\ ~isdir(t, member)
    THEN find_target_unchecked(t, Tail(ino_members), links_or_dirs, member)
    ELSE find_target_unchecked(t, Tail(ino_members), Append(links_or_dirs, member),
                               target_member)

\* The loop of _resolve_links_for_same_ino_members: the members that are
\* no target, the target, and the assertion that there is one target at most.
RECURSIVE find_target(_, _, _, _)
find_target(t, ino_members, links_or_dirs, target_member) ==
  IF ino_members = <<>>
  THEN [err |-> NoError, links_or_dirs |-> links_or_dirs, target_member |-> target_member]
  ELSE
    LET member == Head(ino_members) IN
    IF is_target(t, member)
    THEN IF target_member # NoLink
         THEN [err |-> "AssertionError", links_or_dirs |-> links_or_dirs,
               target_member |-> target_member]
         ELSE find_target(t, Tail(ino_members), links_or_dirs, member)
    ELSE find_target(t, Tail(ino_members), Append(links_or_dirs, member), target_member)

resolve_links_for_same_ino_members(t, ino_members) ==
  LET f == find_target(t, ino_members, <<>>, NoLink) IN
  IF f.err # NoError THEN [err |-> f.err, table |-> t]
  ELSE [err |-> NoError,
        table |-> assign_link_to_members(t, f.links_or_dirs, f.target_member)]

\* _ino_map of getmembers: one group per inode, in the order the inodes
\* first appear, every group in archive order.
ino_map(t) ==
  LET ids == [i \in 1..Len(t) |-> i]
      first == SelectSeq(ids, LAMBDA i : \A j \in 1..(i - 1) : t[j]._ino # t[i]._ino)
  IN [k \in 1..Len(first) |->
        SelectSeq(ids, LAMBDA i : t[i]._ino = t[first[k]]._ino)]

RECURSIVE resolve_groups(_, _)
resolve_groups(t, groups) ==
  IF groups = <<>> THEN [err |-> NoError, table |-> t]
  ELSE
    LET r == resolve_links_for_same_ino_members(t, Head(groups)) IN
    IF r.err # NoError THEN r ELSE resolve_groups(r.table, Tail(groups))

\* RPMFile._resolve_links(ino_map)
resolve_links(t) == resolve_groups(t, ino_map(t))

\* The list without its filter: every record of the table.
all_members(t) == [i \in 1..Len(t) |-> i]

\* [member for member in _members if not member.isdir], as indices.
not_dirs(t) == SelectSeq([i \in 1..Len(t) |-> i], LAMBDA i : ~isdir(t, i))

(***************************************************************************)
(* The archives the model opens: a table laid out entry by entry as the    *)
(* decoder expects it (six bytes of magic, thirteen fields of eight        *)
(* hexadecimal digits, the name and its terminator padded to four bytes,   *)
(* the data padded to four bytes), followed by the bytes of `junk`, which  *)
(* a well-formed table does not have.                                      *)
(***************************************************************************)
HexChar(d) == IF d < 10 THEN 48 + d ELSE 87 + d

RECURSIVE HexN(_, _)
HexN(n, w) == IF w = 0 THEN <<>> ELSE Append(HexN(n \div 16, w - 1), HexChar(n % 16))

Hex8(n) == HexN(n, FieldWidth)

Zeros(k) == [i \in 1..k |-> 0]

\* c_ino c_mode c_uid c_gid c_nlink c_mtime c_filesize c_devmajor c_devminor
\* c_rdevmajor c_rdevminor c_namesize c_check; the mode is that of a regular
\* file, 0100644.
Header(ino, nlink, filesize, namesize) ==
  MAGIC_NEW \o Hex8(ino) \o Hex8(33188) \o Hex8(0) \o Hex8(0) \o Hex8(nlink)
            \o Hex8(0) \o Hex8(filesize) \o Hex8(0) \o Hex8(0) \o Hex8(0)
            \o Hex8(0) \o Hex8(namesize) \o Hex8(0)

\* The name field: the name and its NUL.  The entry of the empty name stands
\* for the entry whose name length field is zero: it has no name bytes.
NameField(e) == IF e.name = <<>> THEN <<>> ELSE e.name \o <<0>>

\* n rounded up to a multiple of four.
AlignUp(n) == ((n + 3) \div 4) * 4

\* bs laid out at offset `at` and padded with zeros to a multiple of four.
Padded(bs, at) == bs \o Zeros(AlignUp(at + Len(bs)) - (at + Len(bs)))

\* Where the data of an entry laid out at offset `at` begins.
DataOffset(e, at) == AlignUp(at + Len(MAGIC_NEW) + CoderSize + Len(NameField(e)))

EntryBytes(e, at) ==
  LET h == Padded(Header(e.ino, e.nlink, Len(e.data), Len(NameField(e)))
                    \o NameField(e), at)
  IN h \o Padded(e.data, at + Len(h)) \o e.junk

RECURSIVE Layout(_, _)
Layout(es, acc) ==
  IF es = <<>> THEN acc
  ELSE Layout(Tail(es), acc \o EntryBytes(Head(es), Len(acc)))

\* The offsets at which Layout puts the data of each entry.
RECURSIVE DataOffsets(_, _)
DataOffsets(es, at) ==
  IF es = <<>> THEN <<>>
  ELSE <<DataOffset(Head(es), at)>>
         \o DataOffsets(Tail(es), at + Len(EntryBytes(Head(es), at)))

Entry(name, ino, nlink, data, junk) ==
  [name |-> name, ino |-> ino, nlink |-> nlink, data |-> data, junk |-> junk]

TrailerEntry == Entry(TRAILER, 0, 1, <<>>, <<>>)

\* Bytes dropped from the end of a table that is cut short.
CutLen == 4

\* The longest table of the archives opened under every codec tag.
MaxCodecEntries == 2

\* "trailer": the table ends with the sentinel entry.  "more": an entry
\* follows the sentinel.  "cut": the stream ends CutLen bytes before the end
\* of its last entry, with no sentinel.
Tails == {"trailer", "more", "cut"}

Payload(es, tail) ==
  LET body == Layout(es, <<>>) IN
  IF tail = "trailer" THEN Layout(<<TrailerEntry>>, body)
  ELSE IF tail = "more"
  THEN Layout(<<TrailerEntry, Entry(<<97>>, 8, 1, <<100>>, <<>>)>>, body)
  ELSE SubSeq(body, 1, Len(body) - CutLen)

NameA == <<97>>

NameBB == <<98, 98>>

NameCCC == <<99, 99, 99>>

PlainData(n) == [i \in 1..n |-> 100]

\* The entries of the archives of Spec.  Inode 1: a member with the ELF
\* signature, a member without it, a zero-size link, and an entry of link
\* count 2 and size 0 that four stray bytes follow.  Inode 2: a one-byte
\* member and an entry of link count 2 and size 0.
EntryKinds ==
  { Entry(NameA, 1, 1, ELF_MAGIC, <<>>),
    Entry(NameA, 1, 2, PlainData(5), <<>>),
    Entry(NameBB, 1, 1, <<>>, <<>>),
    Entry(NameBB, 1, 2, <<>>, ELF_MAGIC),
    Entry(NameA, 2, 1, PlainData(1), <<>>),
    Entry(NameA, 2, 2, <<>>, <<>>) }

\* The entries of the archives of SpecDecoder: every data size from 0 to 5
\* under names of three lengths, each with an inode of its own, and the
\* entry whose name length field is zero.
DecoderKinds ==
  { Entry(NameA, 1, 1, <<>>, <<>>),
    Entry(NameBB, 2, 1, PlainData(1), <<>>),
    Entry(NameCCC, 3, 1, PlainData(2), <<>>),
    Entry(NameA, 4, 1, PlainData(3), <<>>),
    Entry(NameBB, 5, 1, ELF_MAGIC, <<>>),
    Entry(NameCCC, 6, 1, PlainData(5), <<>>),
    Entry(<<>>, 7, 1, <<>>, <<>>) }

SeqsUpTo(S, n) == UNION {[1..k -> S] : k \in 1..n}

\* headers["archive_compression"] and whether `import lzma` succeeded.
Builds ==
  { [compression |-> "gzip", lzma |-> FALSE],
    [compression |-> "xz", lzma |-> TRUE],
    [compression |-> "xz", lzma |-> FALSE],
    [compression |-> "bzip2", lzma |-> TRUE] }

(***************************************************************************)
(* The state of one RPMFile.                                               *)
(***************************************************************************)
VARIABLES
  archive,      \* the archive opened: its entries and how its table ends
  compression,  \* headers["archive_compression"]
  lzma,         \* whether the lzma module was imported
  _data_file,   \* RPMFile._data_file: None, "GzipFile" or "LZMAFile"
  pos,          \* the position of the decompressed stream
  heap,         \* the RPMInfo objects of the latest enumeration
  decoded,      \* the latest run of the decoder: where the stream was
                \* when it began, what it raised, the records it returned
  _members,     \* RPMFile._members: isNone, or the list (indices of heap)
  ret           \* what the latest call did and returned

vars == <<archive, compression, lzma, _data_file, pos, heap, decoded, _members, ret>>

\* The bytes the payload of the archive decompresses to.
payload == Payload(archive.entries, archive.tail)

\* What a call returned: a list of members, one member, a file object over
\* [start, start + size) of the stream, or an exception (kind "raise").
\* stage says how far the enumeration the call made went: "cached" (none
\* was run), "open" (data_file raised), "scan" (the decoder raised),
\* "resolve" (the resolver raised), "done".
Ret(op, arg, kind, err, stage, list, member, start, sz) ==
  [op |-> op, arg |-> arg, kind |-> kind, err |-> err, stage |-> stage,
   list |-> list, member |-> member, start |-> start, size |-> sz]

\* The record of a run of the scan loop begun at position p.
Decoded(p, sc) == [from |-> p, err |-> sc.err, table |-> sc.table]

\* The data_file property: the wrapper it returns and caches.
data_file ==
  IF _data_file # None THEN [err |-> NoError, df |-> _data_file]
  ELSE IF compression = "xz"
       THEN IF ~lzma THEN [err |-> "NoLZMAModuleError", df |-> None]
            ELSE [err |-> NoError, df |-> "LZMAFile"]
       ELSE [err |-> NoError, df |-> "GzipFile"]

\* Whether wrapper df decompresses the payload: a GzipFile over a payload
\* that is no gzip stream raises on its first read.
Decompresses(df) ==
  \/ df = "GzipFile" /\ compression = "gzip"
  \/ df = "LZMAFile" /\ compression = "xz"

Outcome(err, stage, df, p, h, dec, mem) ==
  [err |-> err, stage |-> stage, df |-> df, pos |-> p, heap |-> h,
   decoded |-> dec, members |-> mem]

\* getmembers, after the resolver: the list it caches and returns.
cache_members(g, sc, r) ==
  IF r.err # NoError
  THEN Outcome(r.err, "resolve", g.df, sc.pos, r.table, Decoded(pos, sc), _members)
  ELSE Outcome(NoError, "done", g.df, sc.pos, r.table, Decoded(pos, sc),
               [isNone |-> FALSE, list |-> not_dirs(r.table)])

\* getmembers, after the scan loop: self._resolve_links(_ino_map).
resolve_scanned(g, sc) ==
  IF sc.err # NoError
  THEN Outcome(sc.err, "scan", g.df, sc.pos, sc.table, Decoded(pos, sc), _members)
  ELSE cache_members(g, sc, resolve_links(sc.table))

\* getmembers with _members None, g being what self.data_file gave.
enumerate(g) ==
  IF g.err # NoError
  THEN Outcome(g.err, "open", g.df, pos, heap, decoded, _members)
  ELSE IF ~Decompresses(g.df)
  THEN Outcome("OSError", "scan", g.df, pos, heap, decoded, _members)
  ELSE resolve_scanned(g, scan(payload, pos, <<>>))

\* getmembers without its cache: every call enumerates.
getmembers_uncached == enumerate(data_file)

\* RPMFile.getmembers(): the exception it raises or the list it returns,
\* and the state it leaves.
getmembers ==
  IF ~_members.isNone
  THEN Outcome(NoError, "cached", _data_file, pos, heap, decoded, _members)
  ELSE enumerate(data_file)

\* The lookup scanning forward: the first record of the name.
first_named(t, members, k, name) ==
  LET hits == {j \in 1..k : t[members[j]].name = name} IN
  IF hits = {} THEN NoLink ELSE members[CHOOSE j \in hits : \A i \in hits : j <= i]

\* for m in members[::-1]: if m.name == name: return m
RECURSIVE last_named(_, _, _, _)
last_named(t, members, k, name) ==
  IF k = 0 THEN NoLink
  ELSE IF t[members[k]].name = name THEN members[k]
  ELSE last_named(t, members, k - 1, name)

\* RPMFile.getmember(name) on the outcome o of its getmembers() call: the
\* member it returns, NoLink where it raises KeyError.
getmember(o, name) == last_named(o.heap, o.members.list, Len(o.members.list), name)

Leave(o) ==
  /\ _data_file' = o.df
  /\ pos' = o.pos
  /\ heap' = o.heap
  /\ decoded' = o.decoded
  /\ _members' = o.members
  /\ UNCHANGED <<archive, compression, lzma>>

Raise(op, arg, o) == ret' = Ret(op, arg, "raise", o.err, o.stage, <<>>, NoLink, 0, 0)

\* What getmember / extractfile return for the member m their lookup found.
Found(op, name, o, m) ==
  IF m = NoLink
  THEN ret' = Ret(op, name, "raise", "KeyError", o.stage, <<>>, NoLink, 0, 0)
  ELSE IF op = "extractfile"
  THEN ret' = Ret(op, name, "file", NoError, o.stage, <<>>, m,
                  file_start(o.heap, m), size(o.heap, m))
  ELSE ret' = Ret(op, name, "member", NoError, o.stage, <<>>, m, 0, 0)

\* RPMFile.getmembers(), o being the outcome of the enumeration.
GetMembers(o) ==
  /\ Leave(o)
  /\ IF o.err # NoError THEN Raise("getmembers", <<>>, o)
     ELSE ret' = Ret("getmembers", <<>>, "list", NoError, o.stage, o.members.list, NoLink, 0, 0)

\* The names the model looks up; no archive holds all of them.
LookupNames == {NameA, NameBB}

\* RPMFile.getmember(name)
GetMember(o, name) ==
  /\ Leave(o)
  /\ IF o.err # NoError THEN Raise("getmember", name, o)
     ELSE Found("getmember", name, o, getmember(o, name))

\* RPMFile.get_binaries()
GetBinaries(o) ==
  /\ Leave(o)
  /\ IF o.err # NoError THEN Raise("get_binaries", <<>>, o)
     ELSE ret' = Ret("get_binaries", <<>>, "list", NoError, o.stage,
                     SelectSeq(o.members.list, LAMBDA i : is_elf(o.heap, i)),
                     NoLink, 0, 0)

\* RPMFile.extractfile(member) with a file name.
ExtractFileByName(o, name) ==
  /\ Leave(o)
  /\ IF o.err # NoError THEN Raise("extractfile", name, o)
     ELSE Found("extractfile", name, o, getmember(o, name))

\* RPMFile.extractfile(member) with an RPMInfo object, one of a list that
\* getmembers has returned.
ExtractFileByMember(k) ==
  /\ ~_members.isNone
  /\ k \in 1..Len(_members.list)
  /\ LET m == _members.list[k] IN
     ret' = Ret("extractfile", <<>>, "file", NoError, "cached", <<>>, m,
                file_start(heap, m), size(heap, m))
  /\ UNCHANGED <<archive, compression, lzma, _data_file, pos, heap, decoded, _members>>

\* Reading the file object extractfile returned to its end: the window
\* seeks the decompressed stream to its start and reads its size.
SubFileRead ==
  /\ ret.kind = "file"
  /\ pos' = AfterRead(payload, SeekCur(payload, 0, ret.start), ret.size)
  /\ ret' = [ret EXCEPT !.op = "read", !.kind = "bytes"]
  /\ UNCHANGED <<archive, compression, lzma, _data_file, heap, decoded, _members>>

InitAccessor ==
  /\ _data_file = None
  /\ pos = 0
  /\ heap = <<>>
  /\ decoded = [from |-> -1, err |-> NoError, table |-> <<>>]
  /\ _members = [isNone |-> TRUE, list |-> <<>>]
  /\ ret = Ret("open", <<>>, "none", NoError, "cached", <<>>, NoLink, 0, 0)

Init ==
  /\ archive \in [entries : SeqsUpTo(EntryKinds, MaxEntries), tail : {"trailer"}]
  /\ compression = "gzip"
  /\ lzma = TRUE
  /\ InitAccessor

\* The archives the claims about the decoder are checked on.
InitDecoder ==
  /\ archive \in [entries : SeqsUpTo(DecoderKinds, MaxEntries), tail : Tails]
  /\ compression = "gzip"
  /\ lzma = TRUE
  /\ InitAccessor

\* Short archives under every codec tag and build.
InitCodec ==
  /\ archive \in [entries : SeqsUpTo(EntryKinds, MaxCodecEntries), tail : {"trailer"}]
  /\ \E b \in Builds : compression = b.compression /\ lzma = b.lzma
  /\ InitAccessor

Next ==
  \/ GetMembers(getmembers)
  \/ \E name \in LookupNames : GetMember(getmembers, name)
  \/ GetBinaries(getmembers)
  \/ \E name \in LookupNames : ExtractFileByName(getmembers, name)
  \/ \E k \in 1..MaxEntries : ExtractFileByMember(k)
  \/ SubFileRead

\* The calls that run the decoder and report what it returned.
NextDecoder ==
  \/ GetMembers(getmembers)
  \/ \E name \in LookupNames : GetMember(getmembers, name)

Spec == Init /\ [][Next]_vars

SpecDecoder == InitDecoder /\ [][NextDecoder]_vars

SpecCodec == InitCodec /\ [][Next]_vars

(***************************************************************************)
(* Vocabulary of the claims.                                               *)
(***************************************************************************)
\* The decoder returned record i as a data-bearing member.
DataBearing(t, i) == t[i]._size > 0 /\ ~t[i]._isdir

\* The data-bearing members of the inode group of record i.
TargetsOfGroup(t, i) ==
  {j \in 1..Len(t) : t[j]._ino = t[i]._ino /\ DataBearing(t, j)}

\* The latest call enumerated the table afresh and the resolver ran on it.
Resolved == decoded.from >= 0 /\ decoded.err = NoError /\ Len(heap) = Len(decoded.table)

\* The calls that begin with self.getmembers().
EnumeratingOps == {"getmembers", "getmember", "get_binaries", "extractfile"}

MaxOf(S) == CHOOSE x \in S : \A y \in S : y <= x

(***************************************************************************)
(* C1.  In an inode group with exactly one data-bearing member, every      *)
(* other member reports, once getmembers has resolved the links, the       *)
(* size, the file_start and the is_elf of that member, and isdir false,    *)
(* whatever its own stored size, file_start and is_elf are.                *)
(***************************************************************************)
C1_LinksReportTarget ==
  (~_members.isNone /\ Resolved) =>
    \A m \in 1..Len(heap) : \A target \in 1..Len(heap) :
      (m # target /\ TargetsOfGroup(decoded.table, m) = {target}) =>
        /\ size(heap, m) = size(heap, target)
        /\ file_start(heap, m) = file_start(heap, target)
        /\ is_elf(heap, m) = is_elf(heap, target)
        /\ ~isdir(heap, m)

(***************************************************************************)
(* C2.  No list getmembers returns, and no list it has cached, holds a     *)
(* record whose isdir is true.                                             *)
(***************************************************************************)
C2_NoDirectoryListed ==
  /\ \A k \in 1..Len(_members.list) : ~isdir(heap, _members.list[k])
  /\ ret.kind = "list" => \A k \in 1..Len(ret.list) : ~isdir(heap, ret.list[k])

\* getmembers returned a list from a table that holds a directory, which
\* the list leaves out.
C2_Witness ==
  /\ ret.op = "getmembers"
  /\ ret.kind = "list"
  /\ \E i \in 1..Len(heap) : isdir(heap, i)
  /\ Len(ret.list) > 0

(***************************************************************************)
(* C3.  When an inode group of the table the call decoded holds two or     *)
(* more data-bearing members, the call raises the assertion of the         *)
(* resolver and returns no list, and no list is cached.                    *)
(***************************************************************************)
TwoTargets(t) == \E i \in 1..Len(t) : Cardinality(TargetsOfGroup(t, i)) >= 2

C3_TwoTargetsFail ==
  (ret.stage \in {"resolve", "done"} /\ TwoTargets(decoded.table)) =>
    /\ ret.kind = "raise"
    /\ ret.err = "AssertionError"
    /\ ret.list = <<>>
    /\ _members.isNone

\* getmembers raised on a table of three entries, two of them data-bearing
\* members of one inode.
C3_Witness ==
  /\ ret.op = "getmembers"
  /\ ret.err = "AssertionError"
  /\ Len(decoded.table) = MaxEntries
  /\ TwoTargets(decoded.table)

(***************************************************************************)
(* C4.  Every list getmembers returns is the complete filtered table of    *)
(* the archive, also when an earlier call on the RPMFile has failed.       *)
(***************************************************************************)
\* The enumeration of the archive from the start of its table.
WholeTable == scan(payload, 0, <<>>)

C4_OnlyCompleteTables ==
  (ret.op = "getmembers" /\ ret.kind = "list") =>
    /\ WholeTable.err = NoError
    /\ resolve_links(WholeTable.table).err = NoError
    /\ heap = resolve_links(WholeTable.table).table
    /\ ret.list = not_dirs(heap)

(***************************************************************************)
(* C5.  getmember(name) returns the record of the last occurrence of the   *)
(* name among the entries of the table, whatever the link count and the    *)
(* size of each occurrence.  (As claimed: C5_LastOccurrence.  As the code  *)
(* has it: C5_LastListedOccurrence, the last occurrence among the records  *)
(* getmembers lists, which are the entries that are no directory once the  *)
(* links are resolved; KeyError when no listed record has the name.)       *)
(***************************************************************************)
\* The records of table t that have the name.
Occurrences(t, name) == {i \in 1..Len(t) : t[i].name = name}

\* The call was a getmember whose enumeration, cached or fresh, succeeded.
LookedUp == ret.op = "getmember" /\ ret.err \in {NoError, "KeyError"} /\ Resolved

C5_LastOccurrence ==
  (LookedUp /\ Occurrences(decoded.table, ret.arg) # {}) =>
    /\ ret.kind = "member"
    /\ ret.member = MaxOf(Occurrences(decoded.table, ret.arg))

C5_LastListedOccurrence ==
  LookedUp =>
    LET listed == {i \in Occurrences(decoded.table, ret.arg) : ~isdir(heap, i)} IN
    /\ \A k \in 1..Len(_members.list) : \A j \in 1..(k - 1) :
         heap[_members.list[j]].initial_offset < heap[_members.list[k]].initial_offset
    /\ IF listed = {}
       THEN ret.kind = "raise" /\ ret.err = "KeyError"
       ELSE ret.kind = "member" /\ ret.member = MaxOf(listed)

\* getmember returned the second of the three occurrences of a name, the
\* third being a directory.
C5_Witness ==
  /\ LookedUp
  /\ ret.kind = "member"
  /\ Cardinality(Occurrences(decoded.table, ret.arg)) = 3
  /\ Cardinality({i \in Occurrences(decoded.table, ret.arg) : i < ret.member}) = 1
  /\ \E i \in Occurrences(decoded.table, ret.arg) : i > ret.member /\ isdir(heap, i)

(***************************************************************************)
(* C6.  Once getmembers has succeeded, every later call that begins with   *)
(* getmembers finds the cached list: it runs neither the decoder nor the   *)
(* resolver, leaves the stream where it is, whatever was read from it in   *)
(* between, and getmembers returns the same records in archive order.      *)
(***************************************************************************)
C6_EnumeratedOnce ==
  [][(~_members.isNone /\ ret'.op \in EnumeratingOps) =>
       /\ ret'.stage = "cached"
       /\ pos' = pos
       /\ _data_file' = _data_file
       /\ heap' = heap
       /\ decoded' = decoded
       /\ _members' = _members
       /\ ret'.op = "getmembers" =>
            /\ ret'.kind = "list"
            /\ ret'.list = _members.list
            /\ \A k \in 1..Len(ret'.list) : \A j \in 1..(k - 1) : ret'.list[j] < ret'.list[k]]_vars

\* getmembers returned the cached list of a table of three entries after
\* a read of an extracted file had moved the stream.
C6_Witness ==
  /\ ret.op = "getmembers"
  /\ ret.stage = "cached"
  /\ Len(ret.list) = MaxEntries
  /\ pos # WholeTable.pos

(***************************************************************************)
(* C7.  With a codec tag that has no decompressor in the build (xz without *)
(* the lzma module, any tag other than gzip and xz), every call that asks  *)
(* for the decompressed stream raises NoLZMAModuleError before a byte of   *)
(* the table is read, and no other codec is tried.                         *)
(***************************************************************************)
NoDecompressor ==
  \/ compression = "xz" /\ ~lzma
  \/ compression \notin {"gzip", "xz"}

C7_UnsupportedCodecRaises ==
  (NoDecompressor /\ ret.op \in EnumeratingOps) =>
    /\ ret.kind = "raise"
    /\ ret.err = "NoLZMAModuleError"
    /\ _data_file = None
    /\ pos = 0

(***************************************************************************)
(* C8.  Of a well-formed table the decoder returns the entries before the  *)
(* sentinel, all of them and in archive order, each with the file_start    *)
(* and the size its data was laid out with, for every size from 0 on.      *)
(***************************************************************************)
WellFormed ==
  /\ archive.tail \in {"trailer", "more"}
  /\ \A i \in 1..Len(archive.entries) :
       archive.entries[i].name # <<>> /\ archive.entries[i].junk = <<>>

C8_RoundTripPlacement ==
  (WellFormed /\ decoded.from = 0) =>
    /\ decoded.err = NoError
    /\ Len(decoded.table) = Len(archive.entries)
    /\ \A i \in 1..Len(decoded.table) :
         /\ decoded.table[i].name = archive.entries[i].name
         /\ decoded.table[i]._file_start = DataOffsets(archive.entries, 0)[i]
         /\ decoded.table[i]._size = Len(archive.entries[i].data)
         /\ decoded.table[i]._file_start % 4 = 0
         /\ decoded.table[i].name # TRAILER

\* The decoder ran on a well-formed table of three entries of three
\* different sizes, one of them 0 and one of them between 1 and 3.
C8_Witness ==
  /\ archive.tail = "more"
  /\ WellFormed
  /\ decoded.from = 0
  /\ Len(decoded.table) = MaxEntries
  /\ \E i \in 1..Len(decoded.table) : decoded.table[i]._size = 0
  /\ \E i \in 1..Len(decoded.table) : decoded.table[i]._size \in 1..3
  /\ Cardinality({decoded.table[i]._size : i \in 1..Len(decoded.table)}) = MaxEntries

(***************************************************************************)
(* C9.  An entry whose name length field is zero, or whose declared size   *)
(* reaches past the end of the stream, makes the enumeration raise; no     *)
(* record with an empty name or with data past the end of the stream is    *)
(* returned by the decoder.                                                *)
(***************************************************************************)
C9_MalformedEntryRaises ==
  decoded.from >= 0 =>
    \/ decoded.err # NoError
    \/ \A i \in 1..Len(decoded.table) :
         /\ decoded.table[i].name # <<>>
         /\ decoded.table[i]._file_start + decoded.table[i]._size <= Len(payload)

(***************************************************************************)
(* C10.  After the resolver the links form a star in each inode group:     *)
(* the target of a record is another record of its inode, data-bearing     *)
(* and itself without target; and isdir changes only from true to false    *)
(* and only on a record that is given a target.                            *)
(***************************************************************************)
C10_LinksFormStar ==
  Resolved =>
    \A r \in 1..Len(heap) :
      /\ heap[r].link_target # NoLink =>
           LET t == heap[r].link_target IN
           /\ t \in 1..Len(heap)
           /\ t # r
           /\ heap[t]._ino = heap[r]._ino
           /\ heap[t]._size > 0
           /\ ~heap[t]._isdir
           /\ heap[t].link_target = NoLink
      /\ heap[r]._isdir # decoded.table[r]._isdir =>
           /\ decoded.table[r]._isdir
           /\ ~heap[r]._isdir
           /\ heap[r].link_target # NoLink
           /\ decoded.table[r].link_target = NoLink

\* The resolver gave a target to a record the decoder had flagged a
\* directory, and left another directory of the table alone.
C10_Witness ==
  /\ Resolved
  /\ \E r \in 1..Len(heap) :
       decoded.table[r]._isdir /\ ~heap[r]._isdir /\ heap[r].link_target # NoLink
  /\ \E r \in 1..Len(heap) : heap[r]._isdir

====
